---- MODULE Spec2Model ----
(***************************************************************************)
(* Model of packages/box/lib/utils/unbox.ts: the destination merger        *)
(* (copyTempIntoDestination, promptOverwrites), the recipe engine          *)
(* (followBoxRecipe) and its helpers (traverseDir, removeEmptyDirs).       *)
(*                                                                         *)
(* A path is a sequence of entry names, relative to the directory it is    *)
(* resolved against (path.join is concatenation, path.dirname drops the    *)
(* last name: recipe paths are taken in normalised form).  A file system   *)
(* is a record [d |-> the set of directories, f |-> file path -> content]; *)
(* the root directory <<>> always exists.                                  *)
(***************************************************************************)
EXTENDS Integers, Sequences, FiniteSets, TLC

VARIABLES
  pc,                \* position of the running operation
  error,             \* the error thrown, "" when none
  dest,              \* file system under the destination directory
  dest0,             \* dest when the operation was called
  destExists,        \* whether the destination directory exists
  tmp,               \* file system under tmpDir
  cwd,               \* process.cwd(): a directory of the destination, or elsewhere
  cwdFs,             \* file system under process.cwd() when it is elsewhere
  lsOrder,           \* the order in which readdirSync lists names
  force,             \* options.force
  boxContents,       \* copyTempIntoDestination's locals
  newContents,
  contentCollisions,
  overwriteContents, \* promptOverwrites' local
  shouldCopy,
  idx,               \* promptOverwrites' loop position in contentCollisions
  answers,           \* the confirm answers so far, [file, overwrite]
  asked,             \* every prompt shown so far
  oplog,             \* every file system call that mutated a tree, in order
  recipes,           \* boxConfig.recipes
  option,            \* followBoxRecipe's option argument
  useOption,         \* followBoxRecipe's locals
  optionArr,
  recipeFiles,
  recipeScope,
  counter,
  choice,            \* what the awaited prompt resolved with, until line 256 reads it
  recipeMvs,
  recipeFilesSet,
  selections,        \* every choice taken so far, [depth, via, choice]
  run,               \* number of the current followBoxRecipe call
  prevRun,           \* what the previous followBoxRecipe call left
  dir,               \* removeEmptyDirs' argument
  sourcePath,        \* verifySourcePath's argument
  boxExists,         \* whether sourcePath/truffle-box.json can be accessed
  headResult,        \* what axios.head gives for the box's URL
  unhandledMode,     \* what the runtime does with an unhandled rejection
  verifyPromise,     \* the promise verifySourcePath returned
  accessPromise,     \* the promise fse.access(...).catch(...) made
  source,            \* the tree at sourcePath, or in the repository it names
  sourceExists,      \* whether the local sourcePath is there
  ignore,            \* boxConfig.ignore
  postUnpack,        \* boxConfig.hooks["post-unpack"]
  filter,            \* fetchRepository's filter: the patterns it was given
  called,            \* the functions called so far
  notDirMode         \* what fse.removeSync does with a path below a file

fsVars == <<dest, dest0, destExists, tmp, cwd, cwdFs, lsOrder>>
mergeVars == <<force, boxContents, newContents, contentCollisions,
               overwriteContents, shouldCopy, idx, answers>>
recipeVars == <<recipes, option, useOption, optionArr, recipeFiles, recipeScope,
                counter, choice, recipeMvs, recipeFilesSet, selections, run, prevRun>>
verifyVars == <<sourcePath, boxExists, headResult, unhandledMode,
                verifyPromise, accessPromise>>
unpackVars == <<source, sourceExists, ignore, postUnpack, filter, called>>
vars == <<pc, error, fsVars, mergeVars, asked, oplog, recipeVars, dir, verifyVars,
          unpackVars, notDirMode>>

(***************************************************************************)
(* Bounds of the checked instances.                                        *)
(***************************************************************************)
Names == {"a", "b", "s"}
\* most entries (files and directories) of a generated destination tree
MaxNodes == 3

(***************************************************************************)
(* Paths.                                                                  *)
(***************************************************************************)
Root == <<>>
Join(p, q) == p \o q
Dirname(p) == SubSeq(p, 1, Len(p) - 1)
IsPrefix(p, q) == Len(p) <= Len(q) /\ SubSeq(q, 1, Len(p)) = p
Prefixes(p) == {SubSeq(p, 1, k) : k \in 1..Len(p)}

(***************************************************************************)
(* File systems and the fs-extra calls the source makes.                   *)
(***************************************************************************)
EmptyFs == [d |-> {}, f |-> [p \in {} |-> <<>>]]
IsFile(fs, p) == p \in DOMAIN fs.f
IsDir(fs, p) == p = Root \/ p \in fs.d
Exists(fs, p) == IsFile(fs, p) \/ IsDir(fs, p)
WriteFile(fs, p, c) ==
  [fs EXCEPT !.f = [q \in (DOMAIN fs.f) \cup {p} |-> IF q = p THEN c ELSE fs.f[q]]]
MkDir(fs, p) == [fs EXCEPT !.d = @ \cup {p}]
Restrict(fs, keep) ==
  [d |-> fs.d \cap keep, f |-> [q \in (DOMAIN fs.f) \cap keep |-> fs.f[q]]]
AllPaths(fs) == fs.d \cup DOMAIN fs.f

\* fse.readdirSync(dir): the names of dir's entries, in listing order
readdirSync(fs, p) ==
  LET present(n) == Exists(fs, Join(p, <<n>>))
  IN SelectSeq(lsOrder, present)

\* fs-extra's remove before version 10 (a port of rimraf) throws ENOTDIR for
\* a path below a file, and so does fs.rmSync, which later versions call,
\* on most versions of Node; on some it returns silently.  Only
\* prepareToCopyFiles can name such a path: followBoxRecipe removes files
\* that traverseDir found, promptOverwrites entries of process.cwd()
NotDirModes == {"throw", "silent"}
BelowFile(fs, p) == \E q \in Prefixes(p) \ {p} : IsFile(fs, q)

\* fse.removeSync(p): rm -rf, silent when p does not exist
removeSync(fs, p) ==
  IF BelowFile(fs, p) /\ notDirMode = "throw"
  THEN [ok |-> FALSE, fs |-> fs]
  ELSE [ok |-> TRUE, fs |-> Restrict(fs, {q \in AllPaths(fs) : ~IsPrefix(p, q)})]

\* fse.rmdirSync(p), of an empty directory
rmdirSync(fs, p) == [fs EXCEPT !.d = @ \ {p}]

\* fse.ensureDirSync(p): mkdir -p; fails when a file is in the way
ensureDirSync(fs, p) ==
  IF \E q \in Prefixes(p) : IsFile(fs, q)
  THEN [ok |-> FALSE, fs |-> fs]
  ELSE [ok |-> TRUE, fs |-> [fs EXCEPT !.d = @ \cup Prefixes(p)]]

\* the subtree at from, re-rooted at to
MovedSubtree(fs, from, to) ==
  LET under == {q \in AllPaths(fs) : IsPrefix(from, q)}
      rest == Restrict(fs, AllPaths(fs) \ under)
      img(q) == Join(to, SubSeq(q, Len(from) + 1, Len(q)))
      newd == {img(q) : q \in under \cap fs.d}
      srcOf(t) == CHOOSE q \in under \cap DOMAIN fs.f : img(q) = t
      newf == {img(q) : q \in under \cap DOMAIN fs.f}
  IN [d |-> (rest.d \ {to}) \cup newd,
      f |-> [t \in ((DOMAIN rest.f) \ {to}) \cup newf |->
               IF t \in newf THEN fs.f[srcOf(t)] ELSE rest.f[t]]]

\* a rename that leaves the source in place, as a copy would
renameSyncKeepsSource(fs, from, to) ==
  IF ~IsFile(fs, from) \/ IsDir(fs, to) \/ ~IsDir(fs, Dirname(to))
  THEN [ok |-> FALSE, fs |-> fs]
  ELSE [ok |-> TRUE, fs |-> WriteFile(fs, to, fs.f[from])]

\* fse.renameSync(from, to): rename(2)
renameSync(fs, from, to) ==
  IF ~Exists(fs, from) \/ from = Root \/ to = Root \/ ~IsDir(fs, Dirname(to))
    THEN [ok |-> FALSE, fs |-> fs]
  ELSE IF from = to THEN [ok |-> TRUE, fs |-> fs]
  ELSE IF IsFile(fs, from)
    THEN IF IsDir(fs, to) THEN [ok |-> FALSE, fs |-> fs]
         ELSE [ok |-> TRUE, fs |-> MovedSubtree(fs, from, to)]
  ELSE IF IsPrefix(from, to) \/ IsFile(fs, to)
          \/ (IsDir(fs, to) /\ \E q \in AllPaths(fs) : q # to /\ IsPrefix(to, q))
    THEN [ok |-> FALSE, fs |-> fs]
  ELSE [ok |-> TRUE, fs |-> MovedSubtree(fs, from, to)]

(***************************************************************************)
(* traverseDir: the path of every file under dir, depth first in listing   *)
(* order, relative to dir (returnRelative) or with dir in front.           *)
(***************************************************************************)
RECURSIVE traverseDir(_, _, _, _)
RECURSIVE traverseEach(_, _, _, _, _)
traverseDir(fs, d, returnRelative, relativeDir) ==
  traverseEach(fs, d, returnRelative, relativeDir, readdirSync(fs, d))
traverseEach(fs, d, returnRelative, relativeDir, files) ==
  IF files = <<>> THEN <<>>
  ELSE LET file == Head(files)
           absPath == Join(d, <<file>>)
           relativePath == Join(relativeDir, <<file>>)
           here == IF IsDir(fs, absPath)
                   THEN IF returnRelative
                        THEN traverseDir(fs, absPath, TRUE, relativePath)
                        ELSE traverseDir(fs, absPath, FALSE, <<>>)
                   ELSE <<IF returnRelative THEN relativePath ELSE absPath>>
       IN here \o traverseEach(fs, d, returnRelative, relativeDir, Tail(files))

(***************************************************************************)
(* removeEmptyDirs: children first, then the directory itself when it is   *)
(* empty and not the root of the call.  The file system is threaded        *)
(* through the calls; st.log collects the rmdirSync calls in order.        *)
(***************************************************************************)
RECURSIVE removeEmptyDirs(_, _, _)
RECURSIVE removeEmptyEach(_, _, _)

\* line 202 left out: the listing from before the children were visited
ReevaluateNot(files, fs, d) == files

\* lines 196-203: the listing is read again once the children were visited
Reevaluate(files, fs, d) == IF Len(files) > 0 THEN readdirSync(fs, d) ELSE files

\* line 205 without the isRoot test
ShouldRemoveAny(files, isRoot) == Len(files) = 0

\* line 205: the directory goes when it is empty and not the root
ShouldRemove(files, isRoot) == Len(files) = 0 /\ ~isRoot

removeEmptyDirs(st, d, isRoot) ==
  IF ~IsDir(st.fs, d) THEN st
  ELSE LET files == readdirSync(st.fs, d)
           after == IF Len(files) > 0 THEN removeEmptyEach(st, d, files) ELSE st
       IN IF ShouldRemove(Reevaluate(files, after.fs, d), isRoot)
          THEN [fs |-> rmdirSync(after.fs, d), log |-> Append(after.log, d)]
          ELSE after
removeEmptyEach(st, d, files) ==
  IF files = <<>> THEN st
  ELSE removeEmptyEach(removeEmptyDirs(st, Join(d, <<Head(files)>>), FALSE),
                       d, Tail(files))

(***************************************************************************)
(* Inputs: listing orders and trees.                                       *)
(***************************************************************************)
ListingOrders ==
  {s \in [1..Cardinality(Names) -> Names] : \A i, j \in DOMAIN s : s[i] = s[j] => i = j}

\* every tree one entry larger than fs; a file's content names its origin
Grow(fs, tag) ==
  LET slots == {Join(p, <<n>>) : p \in fs.d \cup {Root}, n \in Names} \ AllPaths(fs)
  IN {WriteFile(fs, p, <<tag, p>>) : p \in slots} \cup {MkDir(fs, p) : p \in slots}

RECURSIVE TreesUpTo(_, _)
TreesUpTo(k, tag) ==
  IF k = 0 THEN {EmptyFs}
  ELSE LET smaller == TreesUpTo(k - 1, tag)
       IN smaller \cup UNION {Grow(fs, tag) : fs \in smaller}

(***************************************************************************)
(* Recipes.  A FileSpec is a string (a path) or an object {from, to}; a    *)
(* scope is an array of FileSpecs (a leaf) or an object whose keys are the *)
(* choice labels.  boxConfig.recipes is an object with no keys, or one     *)
(* with specs, common and prompts.  Labels and option strings are          *)
(* sequences of characters.                                                *)
(***************************************************************************)
File(p) == [type |-> "string", path |-> p]
Mv(from, to) == [type |-> "object", from |-> from, to |-> to]
Leaf(files) == [isArray |-> TRUE, files |-> files]
Branch(kids) == [isArray |-> FALSE, kids |-> kids]
Keys(scope) == DOMAIN scope.kids
Prompt(m) == [message |-> m]

\* String.prototype.split(sep), sep a single character
RECURSIVE split(_, _)
split(s, sep) ==
  IF \A i \in 1..Len(s) : s[i] # sep THEN <<s>>
  ELSE LET i == CHOOSE k \in 1..Len(s) : s[k] = sep /\ \A m \in 1..(k - 1) : s[m] # sep
       IN <<SubSeq(s, 1, i - 1)>> \o split(SubSeq(s, i + 1, Len(s)), sep)

\* line 222: option.split?.(",") || []; reading .split of undefined throws
OptionArr(opt) ==
  IF opt.type = "undefined" THEN [ok |-> FALSE, arr |-> <<>>]
  ELSE IF opt.type = "string" THEN [ok |-> TRUE, arr |-> split(opt.chars, ",")]
  ELSE [ok |-> TRUE, arr |-> <<>>]

\* line 216 left out
NoRecipeDefinedNever(r) == FALSE

\* line 216: Object.keys(recipes).length === 0
NoRecipeDefined(r) == Cardinality(DOMAIN r) = 0

\* what reading a missing key or array slot gives
Undefined == [type |-> "undefined"]
IsUndefined(v) == "type" \in DOMAIN v /\ v.type = "undefined"

\* line 224: recipes.specs
Specs(r) ==
  IF Cardinality(DOMAIN r) = 0 THEN Undefined
  ELSE IF "specs" \in DOMAIN r THEN r.specs ELSE Undefined

\* a slot past the end of optionArr reads undefined, which is no label
NoToken == <<"undefined">>

\* line 242 reading optionArr[0] whatever the depth
CurOptionChoiceFirst(arr, n) == IF 1 <= Len(arr) THEN arr[1] ELSE NoToken

\* line 242: optionArr[counter]
CurOptionChoice(arr, n) == IF n + 1 <= Len(arr) THEN arr[n + 1] ELSE NoToken

\* lines 241-243 without the useOption test
ValidChoiceUnlatched(use, arr, n, choices) == CurOptionChoice(arr, n) \in choices

\* lines 241-243: presets are still in use and the one at this depth is one
\* of the choices
ValidChoice(use, arr, n, choices) == use /\ CurOptionChoice(arr, n) \in choices

\* lines 263-272: the manifest of a file list
IsMv(file) == file.type # "string"
RecipeMvs(files) == SelectSeq(files, IsMv)
\* lines 266-271 with file.to added to the set as well
RecipeFilesSetWithTo(files) ==
  {files[i].path : i \in {j \in DOMAIN files : files[j].type = "string"}}
    \cup {files[i].from : i \in {j \in DOMAIN files : files[j].type # "string"}}
    \cup {files[i].to : i \in {j \in DOMAIN files : files[j].type # "string"}}
RecipeFilesSet(files) ==
  {IF files[i].type = "string" THEN files[i].path ELSE files[i].from : i \in DOMAIN files}

\* line 276 over the top-level files only, as a traversal that does not
\* recurse would give
ExtraFilesTopLevel(allFiles, filesSet) ==
  LET extra(file) == file \notin filesSet /\ Len(file) = 1
  IN SelectSeq(allFiles, extra)

\* line 276: the files the recipe does not name
ExtraFiles(allFiles, filesSet) ==
  LET extra(file) == file \notin filesSet
  IN SelectSeq(allFiles, extra)

\* lines 277-279 emptying each extra file instead of removing it
RECURSIVE removeAllTruncating(_, _)
removeAllTruncating(st, files) ==
  IF files = <<>> THEN st
  ELSE removeAllTruncating(
         [ok |-> TRUE,
          fs |-> WriteFile(st.fs, Head(files), <<"empty", Head(files)>>),
          log |-> Append(st.log, [op |-> "remove", path |-> Head(files)])],
         Tail(files))

\* lines 83-85, 277-279: forEach stops at the first removeSync that throws
RECURSIVE removeAll(_, _)
removeAll(st, files) ==
  IF files = <<>> THEN st
  ELSE LET r == removeSync(st.fs, Head(files))
       IN IF r.ok
          THEN removeAll([ok |-> TRUE, fs |-> r.fs,
                          log |-> Append(st.log, [op |-> "remove", path |-> Head(files)])],
                         Tail(files))
          ELSE [ok |-> FALSE, fs |-> r.fs, log |-> st.log]

\* lines 283-287: one move; the directories ensureDirSync made stay when
\* renameSync throws
ApplyMove(st, mv) ==
  LET made == ensureDirSync(st.fs, Dirname(mv.to))
      moved == renameSync(made.fs, mv.from, mv.to)
  IN IF ~made.ok THEN [ok |-> FALSE, fs |-> st.fs, log |-> st.log]
     ELSE IF ~moved.ok THEN [ok |-> FALSE, fs |-> made.fs, log |-> st.log]
     ELSE [ok |-> TRUE, fs |-> moved.fs,
           log |-> Append(st.log, [op |-> "rename", path |-> mv.from, to |-> mv.to])]

\* lines 282-288 with a move that throws skipped and the rest still made
RECURSIVE applyMovesSkipping(_, _)
applyMovesSkipping(st, mvs) ==
  IF mvs = <<>> THEN st
  ELSE LET r == ApplyMove(st, Head(mvs))
       IN applyMovesSkipping([ok |-> TRUE, fs |-> r.fs, log |-> r.log], Tail(mvs))

\* lines 282-288: forEach stops at the first move that throws
RECURSIVE applyMoves(_, _)
applyMoves(st, mvs) ==
  IF mvs = <<>> THEN st
  ELSE LET r == ApplyMove(st, Head(mvs))
       IN IF r.ok THEN applyMoves(r, Tail(mvs)) ELSE r

\* process.cwd() is the directory p of the destination (Root: the
\* destination itself), or a directory outside the destination and tmpDir
CwdInDest(p) == [at |-> "dest", path |-> p]
CwdElsewhere == [at |-> "other", path |-> Root]

NoOption == [type |-> "undefined"]
MergeIdle ==
  /\ tmp = EmptyFs /\ cwd = CwdInDest(Root) /\ cwdFs = EmptyFs /\ destExists = TRUE
  /\ force = FALSE /\ boxContents = <<>> /\ newContents = <<>>
  /\ contentCollisions = <<>> /\ overwriteContents = <<>> /\ shouldCopy = <<>>
  /\ idx = 0 /\ answers = <<>>
RecipeIdle ==
  /\ recipes = <<>> /\ option = NoOption /\ useOption = FALSE /\ optionArr = <<>>
  /\ recipeFiles = <<>> /\ recipeScope = <<>> /\ counter = 0 /\ recipeMvs = <<>>
  /\ choice = NoToken
  /\ recipeFilesSet = {} /\ selections = <<>> /\ run = 0 /\ prevRun = <<>>
VerifyIdle ==
  /\ sourcePath = <<>> /\ boxExists = FALSE /\ headResult = "none"
  /\ unhandledMode = "warn" /\ verifyPromise = "none" /\ accessPromise = "none"
UnpackIdle ==
  /\ source = EmptyFs /\ sourceExists = FALSE /\ ignore = <<>> /\ postUnpack = <<>>
  /\ filter = <<>> /\ called = {}

(***************************************************************************)
(* removeEmptyDirs(dir) called on its own, on any entry of any tree.       *)
(***************************************************************************)
InitEmptyDirs ==
  /\ pc = "call" /\ error = ""
  /\ dest \in TreesUpTo(MaxNodes, "dst") /\ dest0 = dest
  /\ dir \in AllPaths(dest) \cup {Root}
  /\ lsOrder \in ListingOrders
  /\ asked = <<>> /\ oplog = <<>>
  /\ MergeIdle /\ RecipeIdle /\ VerifyIdle /\ UnpackIdle /\ notDirMode = "throw"

CallRemoveEmptyDirs ==
  /\ pc = "call"
  /\ LET st == removeEmptyDirs([fs |-> dest, log |-> <<>>], dir, TRUE)
     IN /\ dest' = st.fs
        /\ oplog' = [i \in 1..Len(st.log) |-> [op |-> "rmdir", path |-> st.log[i]]]
  /\ pc' = "returned"
  /\ UNCHANGED <<error, dest0, destExists, tmp, cwd, cwdFs, lsOrder, mergeVars,
                 asked, recipeVars, dir, verifyVars, unpackVars, notDirMode>>

NextEmptyDirs == CallRemoveEmptyDirs
SpecEmptyDirs == InitEmptyDirs /\ [][NextEmptyDirs]_vars

HasEntry(fs, p) == \E q \in AllPaths(fs) : Dirname(q) = p /\ q # Root

\* C9: removeEmptyDirs(dir) leaves dir itself in place, even when it ends up
\* empty, and afterwards every directory below dir, at any depth, has at
\* least one entry.
C9_RootKeptNoEmptyDirBelow ==
  pc = "returned" =>
    /\ Exists(dest, dir)
    /\ IsDir(dest0, dir) <=> IsDir(dest, dir)
    /\ \A q \in dest.d : (IsPrefix(dir, q) /\ q # dir) => HasEntry(dest, q)

\* a call whose root ends up empty, below which a nested empty directory was
\* removed
C9_Witness ==
  /\ pc = "returned"
  /\ IsDir(dest, dir) /\ ~HasEntry(dest, dir)
  /\ \E q \in dest0.d : Len(q) >= Len(dir) + 2 /\ IsPrefix(dir, q) /\ q \notin dest.d

(***************************************************************************)
(* followBoxRecipe(boxConfig, destination, option).                        *)
(*   pc: "recipe" (called) -> "loop" (top of the while loop) -> "choose"   *)
(*   (a question is shown) -> "answered" (the prompt has resolved, the     *)
(*   function has not resumed yet) -> "loop" ... -> "prune" -> "move" ->   *)
(*   "cleanup" -> "done"; "skipped" when no recipe is defined, "error"     *)
(*   when a call threw, "aborted" when the prompt was rejected.            *)
(***************************************************************************)
\* the calls of followBoxRecipe on one destination
MaxRuns == 2
\* longest option string
MaxOptLen == 4
OptChars == {"j", "t", ","}

SeqsUpTo(S, n) == UNION {[1..k -> S] : k \in 0..n}
Options ==
  {NoOption, [type |-> "boolean"]}
    \cup {[type |-> "string", chars |-> s] : s \in SeqsUpTo(OptChars, MaxOptLen)}

pa == <<"a">>
pb == <<"b">>
psa == <<"s", "a">>
psb == <<"s", "b">>
pss == <<"s", "s">>
FileSpecs ==
  {File(pa), File(psa), Mv(pa, psa), Mv(psa, pb), Mv(<<"s">>, pb), Mv(pb, psb)}
FileLists == {<<>>} \cup {<<x>> : x \in FileSpecs}
\* recipes without choices: a leaf and the common files
LeafRecipes ==
  {[specs |-> Leaf(l), common |-> c, prompts |-> <<>>] : l \in FileLists, c \in FileLists}

Jj == <<"j">>
Tt == <<"t">>
Jt == <<"j", "t">>
Kids2(k1, v1, k2, v2) == [k \in {k1, k2} |-> IF k = k1 THEN v1 ELSE v2]
TwoPrompts == <<Prompt("first"), Prompt("second")>>
\* recipes with choices, every leaf a different list
BranchRecipes ==
  { [specs |-> Branch(Kids2(Jj, Leaf(<<File(psa)>>), Tt, Leaf(<<File(pb), Mv(pa, psb)>>))),
     common |-> <<File(pss)>>, prompts |-> <<Prompt("first")>>],
    [specs |-> Branch(Kids2(
                 Jj, Branch(Kids2(Jj, Leaf(<<File(pa)>>), Tt, Leaf(<<File(pb)>>))),
                 Tt, Branch(Kids2(Tt, Leaf(<<File(psa)>>), Jt, Leaf(<<Mv(pa, psa)>>))))),
     common |-> <<>>, prompts |-> TwoPrompts],
    [specs |-> Branch(Kids2(
                 Jj, Leaf(<<File(pa)>>),
                 Tt, Branch(Kids2(Jj, Leaf(<<File(pb)>>), Tt, Leaf(<<File(psa)>>))))),
     common |-> <<File(psb)>>, prompts |-> TwoPrompts] }
\* recipes that define no choice and no file
NoKids == [k \in {} |-> <<>>]
HollowRecipes ==
  { [specs |-> Branch(NoKids), common |-> <<>>, prompts |-> <<>>],
    [specs |-> Branch(NoKids), common |-> <<>>, prompts |-> <<Prompt("first")>>] }
NoRecipes == <<>>

SampleTree ==
  [d |-> {<<"s">>}, f |-> [p \in {pa, pb, psa, pss} |-> <<"dst", p>>]]

InitRecipe ==
  /\ pc = "recipe" /\ error = ""
  /\ \/ /\ dest \in TreesUpTo(MaxNodes, "dst")
        /\ recipes \in LeafRecipes \cup {NoRecipes}
        /\ option = [type |-> "boolean"]
     \/ /\ dest = SampleTree
        /\ recipes \in BranchRecipes \cup HollowRecipes \cup {NoRecipes}
        /\ option \in Options
  /\ dest0 = dest
  /\ lsOrder \in ListingOrders
  /\ asked = <<>> /\ oplog = <<>> /\ dir = Root
  /\ MergeIdle /\ VerifyIdle /\ UnpackIdle /\ notDirMode = "throw"
  /\ useOption = FALSE /\ optionArr = <<>> /\ recipeFiles = <<>>
  /\ recipeScope = <<>> /\ counter = 0 /\ recipeMvs = <<>> /\ recipeFilesSet = {}
  /\ choice = NoToken
  /\ selections = <<>> /\ run = 1 /\ prevRun = <<>>

frameFs == <<dest0, destExists, tmp, cwd, cwdFs, lsOrder>>

\* lines 215-225
FollowStart ==
  /\ pc = "recipe"
  /\ IF NoRecipeDefined(recipes)
     THEN /\ pc' = "skipped"
          /\ UNCHANGED <<error, useOption, optionArr, recipeScope, counter>>
     ELSE IF ~OptionArr(option).ok
     THEN /\ pc' = "error" /\ error' = "TypeError"
          /\ useOption' = (option.type # "undefined")
          /\ UNCHANGED <<optionArr, recipeScope, counter>>
     ELSE /\ pc' = "loop"
          /\ useOption' = (option.type # "undefined")
          /\ optionArr' = OptionArr(option).arr
          /\ recipeScope' = Specs(recipes)
          /\ counter' = 0
          /\ UNCHANGED error
  /\ UNCHANGED <<dest, frameFs, mergeVars, asked, oplog, recipes, option,
                 recipeFiles, choice, recipeMvs, recipeFilesSet, selections, run,
                 prevRun, dir, verifyVars, unpackVars, notDirMode>>

\* lines 226-252, one pass of the loop up to the await of line 234, and
\* lines 263-272 once the scope is an array.  inquirer calls the when
\* callback: with a valid preset it answers for the user and no question is
\* shown, but the function is suspended at the await all the same
LoopStep ==
  /\ pc = "loop"
  /\ IF IsUndefined(recipeScope)
     THEN /\ pc' = "error" /\ error' = "TypeError"
          /\ UNCHANGED <<useOption, choice, asked, selections,
                         recipeFiles, recipeMvs, recipeFilesSet>>
     ELSE IF recipeScope.isArray
     THEN /\ recipeFiles' = recipeScope.files \o recipes.common
          /\ recipeMvs' = RecipeMvs(recipeFiles')
          /\ recipeFilesSet' = RecipeFilesSet(recipeFiles')
          /\ pc' = "prune"
          /\ UNCHANGED <<error, useOption, choice, asked, selections>>
     ELSE IF counter + 1 > Len(recipes.prompts)
     THEN /\ pc' = "error" /\ error' = "TypeError"
          /\ UNCHANGED <<useOption, choice, asked, selections,
                         recipeFiles, recipeMvs, recipeFilesSet>>
     ELSE IF ValidChoice(useOption, optionArr, counter, Keys(recipeScope))
     THEN /\ choice' = CurOptionChoice(optionArr, counter)
          /\ selections' = Append(selections,
               [depth |-> counter, via |-> "option",
                choice |-> CurOptionChoice(optionArr, counter)])
          /\ pc' = "answered"
          /\ UNCHANGED <<error, useOption, asked,
                         recipeFiles, recipeMvs, recipeFilesSet>>
     ELSE /\ useOption' = FALSE
          /\ asked' = Append(asked,
               [type |-> "list", depth |-> counter,
                message |-> recipes.prompts[counter + 1].message,
                choices |-> Keys(recipeScope)])
          /\ pc' = "choose"
          /\ UNCHANGED <<error, choice, selections,
                         recipeFiles, recipeMvs, recipeFilesSet>>
  /\ UNCHANGED <<dest, frameFs, mergeVars, oplog, recipes, option, optionArr,
                 recipeScope, counter, run, prevRun, dir,
                 verifyVars, unpackVars, notDirMode>>

\* line 234: the user answers the question with one of its choices and the
\* prompt resolves
Choose ==
  /\ pc = "choose"
  /\ \E answer \in Keys(recipeScope) :
       /\ choice' = answer
       /\ selections' = Append(selections,
            [depth |-> counter, via |-> "prompt", choice |-> answer])
  /\ pc' = "answered"
  /\ UNCHANGED <<error, dest, frameFs, mergeVars, asked, oplog, recipes, option,
                 useOption, optionArr, recipeFiles, recipeScope, counter,
                 recipeMvs, recipeFilesSet, run, prevRun, dir,
                 verifyVars, unpackVars, notDirMode>>

\* lines 234, 256-257: the function resumes with the prompt's answer
Resume ==
  /\ pc = "answered"
  /\ recipeScope' = recipeScope.kids[choice]
  /\ counter' = counter + 1
  /\ choice' = NoToken
  /\ pc' = "loop"
  /\ UNCHANGED <<error, dest, frameFs, mergeVars, asked, oplog, recipes, option,
                 useOption, optionArr, recipeFiles, recipeMvs, recipeFilesSet,
                 selections, run, prevRun, dir, verifyVars, unpackVars, notDirMode>>

\* line 234: the prompt rejects (the user interrupts it, or it has nothing
\* to offer)
ChooseAbort ==
  /\ pc = "choose"
  /\ pc' = "aborted" /\ error' = "PromptRejected"
  /\ UNCHANGED <<dest, frameFs, mergeVars, asked, oplog, recipeVars, dir,
                 verifyVars, unpackVars, notDirMode>>

\* lines 275-279
Prune ==
  /\ pc = "prune"
  /\ LET allFiles == traverseDir(dest, Root, TRUE, <<>>)
         extraFiles == ExtraFiles(allFiles, recipeFilesSet)
         st == removeAll([ok |-> TRUE, fs |-> dest, log |-> oplog], extraFiles)
     IN /\ dest' = st.fs /\ oplog' = st.log
        /\ IF st.ok THEN pc' = "move" /\ UNCHANGED error
           ELSE pc' = "error" /\ error' = "ENOTDIR"
  /\ UNCHANGED <<frameFs, mergeVars, asked, recipeVars, dir,
                 verifyVars, unpackVars, notDirMode>>

\* lines 282-288 followed by lines 275-279: the prune made after the moves
MoveThenPrune ==
  /\ pc = "move"
  /\ LET st == applyMoves([ok |-> TRUE, fs |-> dest, log |-> oplog], recipeMvs)
         allFiles == traverseDir(st.fs, Root, TRUE, <<>>)
         pruned == removeAll([ok |-> TRUE, fs |-> st.fs, log |-> st.log],
                             ExtraFiles(allFiles, recipeFilesSet))
     IN /\ dest' = pruned.fs /\ oplog' = pruned.log
        /\ IF st.ok THEN pc' = "cleanup" /\ UNCHANGED error
           ELSE pc' = "error" /\ error' = "MoveFailed"
  /\ UNCHANGED <<frameFs, mergeVars, asked, recipeVars, dir,
                 verifyVars, unpackVars, notDirMode>>

\* lines 282-288
Move ==
  /\ pc = "move"
  /\ LET st == applyMoves([ok |-> TRUE, fs |-> dest, log |-> oplog], recipeMvs)
     IN /\ dest' = st.fs /\ oplog' = st.log
        /\ IF st.ok THEN pc' = "cleanup" /\ UNCHANGED error
           ELSE pc' = "error" /\ error' = "MoveFailed"
  /\ UNCHANGED <<frameFs, mergeVars, asked, recipeVars, dir,
                 verifyVars, unpackVars, notDirMode>>

\* line 291
Cleanup ==
  /\ pc = "cleanup"
  /\ LET st == removeEmptyDirs([fs |-> dest, log |-> <<>>], Root, TRUE)
     IN /\ dest' = st.fs
        /\ oplog' = oplog \o [i \in 1..Len(st.log) |-> [op |-> "rmdir", path |-> st.log[i]]]
  /\ pc' = "done"
  /\ UNCHANGED <<error, frameFs, mergeVars, asked, recipeVars, dir,
                 verifyVars, unpackVars, notDirMode>>

\* the caller runs followBoxRecipe again, with the same arguments, on the
\* tree the completed run left
Rerun ==
  /\ pc = "done" /\ run < MaxRuns
  /\ prevRun' = [dest |-> dest, recipeFiles |-> recipeFiles, oplog |-> oplog]
  /\ run' = run + 1
  /\ dest0' = dest
  /\ pc' = "recipe"
  /\ asked' = <<>> /\ oplog' = <<>> /\ selections' = <<>>
  /\ useOption' = FALSE /\ optionArr' = <<>> /\ recipeFiles' = <<>>
  /\ recipeScope' = <<>> /\ counter' = 0 /\ recipeMvs' = <<>> /\ recipeFilesSet' = {}
  /\ choice' = NoToken
  /\ UNCHANGED <<error, dest, destExists, tmp, cwd, cwdFs, lsOrder, mergeVars,
                 recipes, option, dir, verifyVars, unpackVars, notDirMode>>

NextRecipe ==
  \/ FollowStart \/ LoopStep \/ Choose \/ ChooseAbort \/ Resume
  \/ Prune \/ Move \/ Cleanup \/ Rerun
SpecRecipe == InitRecipe /\ [][NextRecipe]_vars

(***************************************************************************)
(* Properties of followBoxRecipe.                                          *)
(***************************************************************************)
Files(fs) == DOMAIN fs.f
Froms == {recipeMvs[i].from : i \in DOMAIN recipeMvs}
Tos == {recipeMvs[i].to : i \in DOMAIN recipeMvs}
\* the loop has ended with a file list
Resolved ==
  pc \in {"prune", "move", "cleanup", "done"} \/ (pc = "error" /\ error = "MoveFailed")

\* C1 as stated: after a completed reconciliation every file of the
\* destination has a path in the manifest's paths.
C1_AllFilesInPaths ==
  pc = "done" => \A p \in Files(dest) : p \in recipeFilesSet

\* C1, amended: after a completed reconciliation every file of the
\* destination has a path in the manifest's paths or lies at (or, for a moved
\* directory, below) the `to` of one of the manifest's moves.
C1_AllFilesInPathsOrMoved ==
  pc = "done" =>
    \A p \in Files(dest) : p \in recipeFilesSet \/ \E t \in Tos : IsPrefix(t, p)

\* a completed run that deleted a nested file, kept a named one and left a
\* moved file at a `to` that the paths do not name
C1_Witness ==
  /\ pc = "done" /\ run = 1
  /\ \E p \in Files(dest0) \ Files(dest) : p \notin Froms /\ Len(p) > 1
  /\ \E p \in Files(dest) \cap Files(dest0) : p \in recipeFilesSet
  /\ \E t \in Tos : t \in Files(dest) /\ t \notin recipeFilesSet

\* C2 as stated: a second run with the same manifest on the tree the first
\* run reconciled deletes nothing, moves nothing, raises no error and leaves
\* the tree as it was, whatever the manifest.
C2_SecondRunIsNoOp ==
  (run = 2 /\ Resolved /\ pc # "prune" /\ recipeFiles = prevRun.recipeFiles) =>
    (pc # "error" /\ oplog = <<>> /\ dest = prevRun.dest)

\* C2, amended: for a manifest without MoveSpecs, a second run with the same
\* manifest on the tree the first run reconciled deletes nothing, moves
\* nothing, removes no directory, raises no error and leaves the tree as it
\* was.
C2_SecondRunIsNoOpWithoutMoves ==
  (run = 2 /\ Resolved /\ pc # "prune" /\ recipeFiles = prevRun.recipeFiles
     /\ recipeMvs = <<>>) =>
    (pc # "error" /\ oplog = <<>> /\ dest = prevRun.dest)

\* a completed second run, without moves, after a first run that deleted a
\* file and removed a directory and left a file
C2_Witness ==
  /\ run = 2 /\ pc = "done" /\ recipeMvs = <<>>
  /\ recipeFiles = prevRun.recipeFiles
  /\ \E i \in DOMAIN prevRun.oplog : prevRun.oplog[i].op = "remove"
  /\ \E i \in DOMAIN prevRun.oplog : prevRun.oplog[i].op = "rmdir"
  /\ Files(dest) # {}

Related(p, q) == IsPrefix(p, q) \/ IsPrefix(q, p)
\* no move names a path that another move names, or one above or below it
MovesIndependent ==
  \A i, j \in DOMAIN recipeMvs :
    i < j => \A p \in {recipeMvs[i].from, recipeMvs[i].to} :
               \A q \in {recipeMvs[j].from, recipeMvs[j].to} : ~Related(p, q)
KeptFiles == {p \in recipeFilesSet \cap Files(dest0) : p \notin Froms}

\* C3: when every move's from is a file of the destination and the moves
\* are independent, a completed followBoxRecipe leaves exactly the named
\* files that existed and are no move's from, plus the to of every move,
\* which holds what its from held; every other file is gone.
C3_FinalTree ==
  (pc = "done" /\ MovesIndependent
     /\ \A i \in DOMAIN recipeMvs :
          IsFile(dest0, recipeMvs[i].from) /\ recipeMvs[i].from # recipeMvs[i].to) =>
    /\ Files(dest) = KeptFiles \cup Tos
    /\ \A i \in DOMAIN recipeMvs : dest.f[recipeMvs[i].to] = dest0.f[recipeMvs[i].from]
    /\ \A p \in KeptFiles \ Tos : dest.f[p] = dest0.f[p]

\* the scenario: preset "t" on a tree holding s/a (the other variant's
\* file), b, a (to be moved to s/b) and s/s (a common file)
C3_Witness ==
  /\ pc = "done" /\ run = 1
  /\ option = [type |-> "string", chars |-> <<"t">>]
  /\ dest0 = SampleTree
  /\ recipeFiles = <<File(pb), Mv(pa, psb), File(pss)>>
  /\ Files(dest) = {pb, psb, pss}
  /\ dest.f[psb] = <<"dst", pa>>

RECURSIVE Descend(_, _)
Descend(scope, labels) ==
  IF labels = <<>> THEN scope
  ELSE Descend(scope.kids[Head(labels)], Tail(labels))
\* the scope the first k selections lead to
ScopeAt(k) ==
  Descend(recipes.specs, [i \in 1..k |-> selections[i].choice])
\* the preset token for the e-th selection is a key of the scope it is made in
TokenValidAt(e) == e <= Len(optionArr) /\ optionArr[e] \in Keys(ScopeAt(e - 1))
Pending == IF pc \in {"choose", "aborted"} THEN 1 ELSE 0
PromptedSelections == {k \in DOMAIN selections : selections[k].via = "prompt"}

\* C4: a selection is taken from the preset tokens exactly when the token of
\* its depth and of every depth before it is a key of the scope there; from
\* the first depth whose token is missing or no key on, every depth prompts
\* (one prompt per depth, in depth order) and no token is used.  With two
\* levels and an invalid first token exactly two prompts are shown.
C4_PermanentFallback ==
  /\ \A k \in DOMAIN selections :
       /\ selections[k].depth = k - 1
       /\ selections[k].via = "option" <=> \A e \in 1..k : TokenValidAt(e)
       /\ selections[k].via = "option" => selections[k].choice = optionArr[k]
  /\ Len(asked) = Cardinality(PromptedSelections) + Pending
  /\ \A i \in DOMAIN asked :
       /\ i > 1 => asked[i].depth = asked[i - 1].depth + 1
       /\ asked[i].depth < Len(selections) => selections[asked[i].depth + 1].via = "prompt"
  /\ (pc = "choose" /\ useOption = FALSE /\ selections # <<>>) =>
       asked[Len(asked)].depth = Len(selections)
  /\ (Resolved /\ Len(selections) = 2 /\ ~TokenValidAt(1)) => Len(asked) = 2

\* two prompts on a two-level walk whose first token is no key and whose
\* second token is a key of the scope the first answer led to
C4_Witness ==
  /\ pc = "done" /\ Len(selections) = 2 /\ Len(asked) = 2
  /\ ~TokenValidAt(1)
  /\ Len(optionArr) >= 2 /\ optionArr[2] \in Keys(ScopeAt(1))

\* the leaf the tokens address, taken in order from the first
RECURSIVE WalkTokens(_, _, _)
WalkTokens(scope, arr, depth) ==
  IF scope.isArray THEN [ok |-> TRUE, files |-> scope.files, depth |-> depth]
  ELSE IF arr = <<>> \/ Head(arr) \notin Keys(scope)
       THEN [ok |-> FALSE, files |-> <<>>, depth |-> depth]
  ELSE WalkTokens(scope.kids[Head(arr)], Tail(arr), depth + 1)

\* C5: when the option is given and its tokens are keys at every depth down
\* to a leaf, no prompt is shown, the walk fails nowhere, and the file list
\* is that of the leaf the tokens address in order, followed by the common
\* files; a leaf at depth 0 prompts for nothing and tokens past the leaf's
\* depth are not read.
C5_PresetNavigation ==
  (pc \notin {"recipe", "skipped"} /\ option.type # "undefined"
     /\ ~IsUndefined(Specs(recipes))) =>
    LET w == WalkTokens(recipes.specs, OptionArr(option).arr, 0)
    IN w.ok =>
         /\ asked = <<>>
         /\ pc \notin {"choose", "aborted"}
         /\ pc = "error" => error = "MoveFailed"
         /\ \A k \in DOMAIN selections : selections[k].via = "option"
         /\ Resolved =>
              /\ recipeFiles = w.files \o recipes.common
              /\ Len(selections) = w.depth

\* a two-level walk by presets alone, with a third token left unread
C5_Witness ==
  /\ pc = "done" /\ asked = <<>>
  /\ Len(selections) = 2 /\ Len(optionArr) = 3
  /\ \A k \in DOMAIN selections : selections[k].via = "option"

\* the recipe names no scope: no keys at all, or specs without entries
HasNoScopes(r) ==
  IF DOMAIN r = {} THEN TRUE
  ELSE IF r.specs.isArray THEN r.specs.files = <<>>
  ELSE Keys(r.specs) = {}

\* C10 as stated (for a call that is given an option): for a recipe without
\* scopes, specs without entries included, no prompt is shown, no error is
\* raised and the tree is left as it was.
C10_NoScopesIsNoOp ==
  (HasNoScopes(recipes) /\ option.type # "undefined") =>
    asked = <<>> /\ pc \notin {"error", "aborted"} /\ dest = dest0

\* C10, amended: when the recipes object has no keys at all, followBoxRecipe
\* returns at once: no prompt, no error (whatever the option), no file
\* system call, the tree as it was.  (A recipes object whose specs is empty
\* is not skipped.)
C10_NoKeysIsNoOp ==
  DOMAIN recipes = {} =>
    /\ pc \in {"recipe", "skipped"}
    /\ asked = <<>> /\ error = "" /\ oplog = <<>> /\ dest = dest0

\* the call returned at once on a tree with files and without an option
C10_Witness ==
  /\ pc = "skipped" /\ DOMAIN recipes = {}
  /\ option = NoOption /\ Files(dest) # {}

\* the calls of the log with the given op, in order
OpsOf(log, op) == LET is(e) == e.op = op IN SelectSeq(log, is)
\* the moves made so far, as MoveSpecs
Renamed == [i \in DOMAIN OpsOf(oplog, "rename") |->
              Mv(OpsOf(oplog, "rename")[i].path, OpsOf(oplog, "rename")[i].to)]
MoveFailed == pc = "error" /\ error = "MoveFailed"
\* at or below the `to` of a move made so far
UnderMoved(p) == \E i \in DOMAIN Renamed : IsPrefix(Renamed[i].to, p)

\* C11, in every state: the phases after the moves are reached only with
\* every move made; when a move has thrown, the moves made are the ones
\* before it, in order, no directory was removed, and the files the prune
\* phase deleted are still gone.
C11_FailedMoveState ==
  /\ pc \in {"cleanup", "done"} => Renamed = recipeMvs
  /\ MoveFailed =>
       /\ Len(Renamed) < Len(recipeMvs)
       /\ Renamed = SubSeq(recipeMvs, 1, Len(Renamed))
       /\ OpsOf(oplog, "rmdir") = <<>>
       /\ \A i \in DOMAIN oplog :
            oplog[i].op = "remove" =>
              (IsFile(dest0, oplog[i].path)
               /\ (IsFile(dest, oplog[i].path) => UnderMoved(oplog[i].path)))

\* C11, in every step: when the move phase starts and the first move's
\* `from` does not exist, the run ends in an error with no move made and
\* no file touched.
C11_FailedMoveStep ==
  (pc = "move" /\ recipeMvs # <<>> /\ ~Exists(dest, recipeMvs[1].from)) =>
    (MoveFailed' /\ oplog' = oplog /\ dest'.f = dest.f)

\* C11: a move whose `from` does not exist ends the run with an error: no
\* later move is made and removeEmptyDirs does not run, while the prune
\* phase's deletions and the moves already made stay.
C11_MissingFromIsFatal == []C11_FailedMoveState /\ [][C11_FailedMoveStep]_vars

\* a run that pruned a file, made its first move and threw at the second,
\* whose `from` does not exist
C11_Witness ==
  /\ MoveFailed /\ Len(Renamed) = 1 /\ Len(recipeMvs) = 2
  /\ ~Exists(dest, recipeMvs[2].from)
  /\ OpsOf(oplog, "remove") # <<>>

\* the phase a file system call belongs to
PhaseOf(op) == IF op = "remove" THEN 1 ELSE IF op = "rename" THEN 2 ELSE 3
\* where the file p, at or below from, is after a move of from to to
Carried(p, from, to) == Join(to, SubSeq(p, Len(from) + 1, Len(p)))

\* C15: in every run the removeSync calls of the prune phase come before
\* the first renameSync, and every renameSync before the first rmdirSync.
\* So, after a completed run with one move, every file the prune phase kept
\* at or below the move's `from` is at the move's `to` with its content,
\* whether or not `to` is in the manifest's paths, and no directory of the
\* destination is left empty.
C15_PhaseOrder ==
  /\ \A i, j \in DOMAIN oplog : i < j => PhaseOf(oplog[i].op) <= PhaseOf(oplog[j].op)
  /\ pc = "done" =>
       /\ \A q \in dest.d : HasEntry(dest, q)
       /\ Len(recipeMvs) = 1 =>
            \A p \in Files(dest0) :
              (IsPrefix(recipeMvs[1].from, p) /\ p \in recipeFilesSet) =>
                LET t == Carried(p, recipeMvs[1].from, recipeMvs[1].to)
                IN IsFile(dest, t) /\ dest.f[t] = dest0.f[p]

\* a completed run that pruned a file, then moved a file to a path that is
\* not in the manifest's paths, then removed a directory this left empty
C15_Witness ==
  /\ pc = "done" /\ Len(recipeMvs) = 1
  /\ recipeMvs[1].to \notin recipeFilesSet /\ IsFile(dest, recipeMvs[1].to)
  /\ OpsOf(oplog, "remove") # <<>> /\ OpsOf(oplog, "rename") # <<>>
  /\ OpsOf(oplog, "rmdir") # <<>>

\* the positions of the plain paths and of the MoveSpecs in the file list
PlainAt == {i \in DOMAIN recipeFiles : recipeFiles[i].type = "string"}
MovesAt == {i \in DOMAIN recipeFiles : recipeFiles[i].type = "object"}

\* C17: once the loop has ended, the file list is the reached leaf followed
\* by recipes.common; the manifest's paths are the plain paths and the
\* `from` of every MoveSpec of that list, as a set, a `to` being among them
\* only when the list also names it as a plain path or a `from`; and the
\* manifest's moves are the MoveSpecs of the list in the list's order.
C17_Manifest ==
  Resolved =>
    /\ recipeScope.isArray
    /\ recipeFiles = recipeScope.files \o recipes.common
    /\ recipeFilesSet = {recipeFiles[i].path : i \in PlainAt}
                          \cup {recipeFiles[i].from : i \in MovesAt}
    /\ Len(recipeMvs) = Cardinality(MovesAt)
    /\ \E at \in [DOMAIN recipeMvs -> MovesAt] :
         /\ \A i, j \in DOMAIN recipeMvs : i < j => at[i] < at[j]
         /\ \A i \in DOMAIN recipeMvs : recipeMvs[i] = recipeFiles[at[i]]

\* a chosen leaf with a plain path and a move, followed by a common file
C17_Witness ==
  /\ Resolved /\ selections # <<>>
  /\ recipes.common # <<>> /\ recipeMvs # <<>> /\ PlainAt # {}
  /\ Len(recipeFiles) > Len(recipes.common) + 1
  /\ \E i \in DOMAIN recipeMvs : recipeMvs[i].to \notin recipeFilesSet

\* C18 as stated: every file of the destination was there before the run,
\* at the same path with the same content, or is at the `to` of a move made
\* and holds what was at that move's `from` before the run.
C18_OnlyDeletesAndMoves ==
  \A p \in Files(dest) :
    \/ IsFile(dest0, p) /\ dest.f[p] = dest0.f[p]
    \/ \E i \in DOMAIN Renamed :
         /\ Renamed[i].to = p
         /\ IsFile(dest0, Renamed[i].from) /\ dest.f[p] = dest0.f[Renamed[i].from]

\* C18: at every point of a run, every file of the destination was there
\* before the run, at the same path with the same content, or is at or
\* below the `to` of a move made and holds what one file held before the
\* run; no two files hold what one file held before.
C18_NoContentCreated ==
  /\ \A p \in Files(dest) :
       \/ IsFile(dest0, p) /\ dest.f[p] = dest0.f[p]
       \/ UnderMoved(p) /\ \E q \in Files(dest0) : dest.f[p] = dest0.f[q]
  /\ \A p, q \in Files(dest) : dest.f[p] = dest.f[q] => p = q

\* a run that failed at its second move, after a prune and a first move
\* whose file is in the destination under its new path only
C18_Witness ==
  /\ MoveFailed /\ Len(Renamed) = 1 /\ OpsOf(oplog, "remove") # <<>>
  /\ IsFile(dest, Renamed[1].to) /\ ~IsFile(dest0, Renamed[1].to)
  /\ dest.f[Renamed[1].to] = dest0.f[Renamed[1].from]

\* every leaf of the scope is a file list
RECURSIVE LeavesAreFileLists(_)
LeavesAreFileLists(scope) ==
  IF scope.isArray THEN TRUE
  ELSE /\ Keys(scope) # {}
       /\ \A k \in Keys(scope) : LeavesAreFileLists(scope.kids[k])
\* a recipe with a tree of choices that ends in file lists
IsRecipeTree(r) == DOMAIN r # {} /\ LeavesAreFileLists(r.specs)

\* C20: for a recipe tree whose leaves are file lists and prompts that are
\* answered with one of their choices, the navigation ends in no error; it
\* has reached a leaf after as many selections as the leaf is deep; every
\* selection, preset or prompted, is a key of the scope it is made in; and
\* the prompt at depth d offers the keys of the scope at depth d under the
\* message recipes.prompts[d].message.
C20_NavigationReachesLeaf ==
  (IsRecipeTree(recipes) /\ pc # "aborted") =>
    /\ pc = "error" => error = "MoveFailed"
    /\ Resolved => (recipeScope.isArray /\ ScopeAt(Len(selections)) = recipeScope
                    /\ counter = Len(selections))
    /\ \A k \in DOMAIN selections :
         selections[k].depth = k - 1 /\ selections[k].choice \in Keys(ScopeAt(k - 1))
    /\ \A i \in DOMAIN asked :
         /\ asked[i].choices = Keys(ScopeAt(asked[i].depth))
         /\ asked[i].message = recipes.prompts[asked[i].depth + 1].message

(***************************************************************************)
(* copyTempIntoDestination(tmpDir, destination, {force}) and               *)
(* promptOverwrites(contentCollisions).                                    *)
(*   pc: "merge" (called) -> "confirm" (a confirm prompt is awaited) ->    *)
(*   "copy" (line 137 is awaited) -> "done"; "error" when copySync threw,  *)
(*   "aborted" when the prompt was rejected.                               *)
(***************************************************************************)
\* most entries of a generated tmpDir tree and of a generated destination
MaxMergeNodes == 2

\* fse.copySync(tmpDir/p, destination/p): directories are merged, files
\* replaced; a directory over a file, or a file over a directory, throws,
\* and what was copied before stays
RECURSIVE copySync(_, _, _)
RECURSIVE copyEach(_, _, _, _)
copySync(src, dst, p) ==
  IF IsDir(src, p)
  THEN IF IsFile(dst, p) THEN [ok |-> FALSE, fs |-> dst]
       ELSE copyEach(src, MkDir(dst, p), p, readdirSync(src, p))
  ELSE IF IsDir(dst, p) THEN [ok |-> FALSE, fs |-> dst]
       ELSE [ok |-> TRUE, fs |-> WriteFile(dst, p, src.f[p])]
copyEach(src, dst, p, items) ==
  IF items = <<>> THEN [ok |-> TRUE, fs |-> dst]
  ELSE LET r == copySync(src, dst, Join(p, <<Head(items)>>))
       IN IF r.ok THEN copyEach(src, r.fs, p, Tail(items)) ELSE r

\* lines 141-143: the loop stops at the first copySync that throws
RECURSIVE copyAll(_, _, _)
copyAll(src, st, files) ==
  IF files = <<>> THEN st
  ELSE LET r == copySync(src, st.fs, <<Head(files)>>)
       IN IF r.ok
          THEN copyAll(src, [ok |-> TRUE, fs |-> r.fs,
                             log |-> Append(st.log, [op |-> "copy", path |-> <<Head(files)>>])],
                       Tail(files))
          ELSE [ok |-> FALSE, fs |-> r.fs, log |-> st.log]

\* lines 125-131
Includes(list, x) == \E i \in DOMAIN list : list[i] = x
\* lines 125-127 with every entry taken as colliding
NewContentsNone(box, destinationContents) == <<>>
NewContents(box, destinationContents) ==
  LET new(filename) == ~Includes(destinationContents, filename)
  IN SelectSeq(box, new)
\* lines 129-131 with no filter
ContentCollisionsAll(box, destinationContents) == box
ContentCollisions(box, destinationContents) ==
  LET both(filename) == Includes(destinationContents, filename)
  IN SelectSeq(box, both)

\* lines 106-109 with the push outside the if
OverwriteContentsAlways(list, file, overwrite) == Append(list, file)

\* lines 106-109: the entries the user agreed to overwrite
OverwriteContents(list, file, overwrite) ==
  IF overwrite THEN Append(list, file) ELSE list

\* lines 134-139 with force copying only what is new
ShouldCopyNewOnly(frc, box, new, over) == new \o over

\* lines 134-139
ShouldCopy(frc, box, new, over) == IF frc THEN box ELSE new \o over

\* lines 96-103: the confirm question for a file
ConfirmQuestion(file) == [type |-> "confirm", file |-> file, default |-> FALSE]

\* what process.cwd() holds when it is not the destination: an entry of
\* every name
OtherCwdTree == [d |-> {}, f |-> [p \in {<<n>> : n \in Names} |-> <<"cwd", p>>]]

\* destinations with a directory that holds a file named like a top-level
\* file: what a process.cwd() inside the destination can reach
NestedNamesakeTrees ==
  UNION {{[d |-> {<<m>>}, f |-> [p \in {<<n>>, <<m, n>>} |-> <<"dst", p>>]]
            : n \in Names \ {m}} : m \in Names}

InitMerge ==
  /\ pc = "merge" /\ error = ""
  /\ tmp \in TreesUpTo(MaxMergeNodes, "tmp")
  /\ dest \in TreesUpTo(MaxMergeNodes, "dst") \cup NestedNamesakeTrees
  /\ dest0 = dest
  /\ \/ /\ force \in BOOLEAN /\ cwd = CwdInDest(Root)
        /\ cwdFs = EmptyFs /\ destExists = TRUE
     \/ /\ force = FALSE /\ cwd \in {CwdInDest(p) : p \in dest.d}
        /\ cwdFs = EmptyFs /\ destExists = TRUE
     \/ /\ force = FALSE /\ cwd = CwdElsewhere /\ cwdFs = OtherCwdTree
        /\ destExists \in {TRUE, dest # EmptyFs}
  /\ lsOrder \in ListingOrders
  /\ boxContents = <<>> /\ newContents = <<>> /\ contentCollisions = <<>>
  /\ overwriteContents = <<>> /\ shouldCopy = <<>> /\ idx = 0 /\ answers = <<>>
  /\ asked = <<>> /\ oplog = <<>> /\ dir = Root
  /\ RecipeIdle /\ VerifyIdle /\ UnpackIdle /\ notDirMode = "throw"

\* the call of copyTempIntoDestination, as far as it runs before it yields:
\* with force lines 120-143, for nothing is awaited; without force lines
\* 120-137, up to the await of the first confirm prompt (line 105) when
\* there is a collision, of promptOverwrites' result (line 137) when there
\* is none
MergeStart ==
  /\ pc = "merge"
  /\ destExists' = TRUE
  /\ LET box == readdirSync(tmp, Root)
         destinationContents == readdirSync(dest, Root)
         new == NewContents(box, destinationContents)
         collisions == ContentCollisions(box, destinationContents)
     IN /\ boxContents' = box
        /\ newContents' = new
        /\ contentCollisions' = collisions
        /\ IF force
           THEN /\ shouldCopy' = ShouldCopy(force, box, new, overwriteContents)
                /\ LET st == copyAll(tmp, [ok |-> TRUE, fs |-> dest, log |-> oplog],
                                     shouldCopy')
                   IN /\ dest' = st.fs /\ oplog' = st.log
                      /\ IF st.ok THEN pc' = "done" /\ UNCHANGED error
                         ELSE pc' = "error" /\ error' = "CopyFailed"
                /\ UNCHANGED <<idx, asked>>
           ELSE IF collisions = <<>>
           THEN /\ pc' = "copy"
                /\ UNCHANGED <<error, dest, oplog, shouldCopy, idx, asked>>
           ELSE /\ idx' = 1
                /\ asked' = Append(asked, ConfirmQuestion(collisions[1]))
                /\ pc' = "confirm"
                /\ UNCHANGED <<error, dest, oplog, shouldCopy>>
  /\ UNCHANGED <<dest0, tmp, cwd, cwdFs, lsOrder, force,
                 overwriteContents, answers, recipeVars, dir,
                 verifyVars, unpackVars, notDirMode>>

\* lines 105-112: the prompt resolves; removeSync(file) resolves the bare
\* name against process.cwd(); the next question is shown, or, after the
\* last one, promptOverwrites returns and line 137 awaits its result
Confirm ==
  /\ pc = "confirm"
  /\ \E overwrite \in BOOLEAN :
       LET file == contentCollisions[idx]
           over == OverwriteContents(overwriteContents, file, overwrite)
           r == IF cwd.at = "dest" THEN removeSync(dest, Join(cwd.path, <<file>>))
                ELSE removeSync(cwdFs, <<file>>)
       IN /\ answers' = Append(answers, [file |-> file, overwrite |-> overwrite])
          /\ IF overwrite /\ ~r.ok
             THEN /\ pc' = "error" /\ error' = "ENOTDIR"
                  /\ UNCHANGED <<overwriteContents, oplog, dest, cwdFs, idx, asked>>
             ELSE /\ overwriteContents' = over
                  /\ IF overwrite
                     THEN /\ oplog' = Append(oplog,
                               [op |-> "remove", path |-> Join(cwd.path, <<file>>),
                                at |-> cwd.at])
                          /\ IF cwd.at = "dest"
                             THEN dest' = r.fs /\ UNCHANGED cwdFs
                             ELSE cwdFs' = r.fs /\ UNCHANGED dest
                     ELSE UNCHANGED <<oplog, dest, cwdFs>>
                  /\ IF idx < Len(contentCollisions)
                     THEN /\ idx' = idx + 1
                          /\ asked' = Append(asked,
                                             ConfirmQuestion(contentCollisions[idx + 1]))
                          /\ UNCHANGED <<pc, error>>
                     ELSE /\ pc' = "copy"
                          /\ UNCHANGED <<error, idx, asked>>
  /\ UNCHANGED <<dest0, destExists, tmp, cwd, lsOrder, force, boxContents,
                 newContents, contentCollisions, shouldCopy, recipeVars, dir,
                 verifyVars, unpackVars, notDirMode>>

\* line 105: the prompt rejects
ConfirmAbort ==
  /\ pc = "confirm"
  /\ pc' = "aborted" /\ error' = "PromptRejected"
  /\ UNCHANGED <<fsVars, mergeVars, asked, oplog, recipeVars, dir,
                 verifyVars, unpackVars, notDirMode>>

\* lines 137-143: the await of line 137 resumes with overwriteContents;
\* shouldCopy (line 138) and the copy loop
CopyAll ==
  /\ pc = "copy"
  /\ shouldCopy' = ShouldCopy(force, boxContents, newContents, overwriteContents)
  /\ LET st == copyAll(tmp, [ok |-> TRUE, fs |-> dest, log |-> oplog], shouldCopy')
     IN /\ dest' = st.fs /\ oplog' = st.log
        /\ IF st.ok THEN pc' = "done" /\ UNCHANGED error
           ELSE pc' = "error" /\ error' = "CopyFailed"
  /\ UNCHANGED <<dest0, destExists, tmp, cwd, cwdFs, lsOrder, force, boxContents,
                 newContents, contentCollisions, overwriteContents, idx, answers,
                 asked, recipeVars, dir, verifyVars, unpackVars, notDirMode>>

NextMerge == MergeStart \/ Confirm \/ ConfirmAbort \/ CopyAll
SpecMerge == InitMerge /\ [][NextMerge]_vars

(***************************************************************************)
(* Properties of copyTempIntoDestination.                                  *)
(***************************************************************************)
\* the entry of the given top-level name with all that is below it
Entry(fs, name) == Restrict(fs, {q \in AllPaths(fs) : IsPrefix(<<name>>, q)})
Confirmed == {answers[i].file : i \in {j \in DOMAIN answers : answers[j].overwrite}}
Declined == {answers[i].file : i \in {j \in DOMAIN answers : ~answers[j].overwrite}}
Copied == {oplog[i].path[1] : i \in {j \in DOMAIN oplog : oplog[j].op = "copy"}}

\* C6: without force, when merge has completed, every colliding entry the
\* user confirmed is in the destination exactly as it is in tmpDir (nothing
\* of the old entry is left), wherever process.cwd() is.
C6_ConfirmedEntryReplaced ==
  (pc = "done" /\ ~force) =>
    \A name \in Confirmed : Entry(dest, name) = Entry(tmp, name)

\* C7: without force, a colliding entry whose confirm was answered no is in
\* the destination as it was, with everything below it, at every point of
\* the merge and after it; copySync is not called for it.
C7_DeclinedEntryUntouched ==
  ~force =>
    \A name \in Declined :
      /\ Entry(dest, name) = Entry(dest0, name)
      /\ name \notin Copied

\* C8: with force no confirm prompt is ever shown, and when merge has
\* completed copySync was called for every top-level entry of tmpDir, in
\* listing order, so every file of tmpDir is in the destination with
\* tmpDir's content and every directory of tmpDir is one of the destination.
C8_ForceCopiesEverything ==
  force =>
    /\ asked = <<>> /\ answers = <<>> /\ pc # "confirm"
    /\ pc = "done" =>
         /\ [i \in DOMAIN oplog |-> oplog[i].path[1]] = readdirSync(tmp, Root)
         /\ \A i \in DOMAIN oplog : oplog[i].op = "copy"
         /\ \A p \in DOMAIN tmp.f : IsFile(dest, p) /\ dest.f[p] = tmp.f[p]
         /\ \A p \in tmp.d : IsDir(dest, p)

\* a completed forced merge that replaced a colliding file and added a new
\* entry
C8_Witness ==
  /\ pc = "done" /\ force
  /\ \E n \in Names : IsFile(dest0, <<n>>) /\ IsFile(tmp, <<n>>)
                       /\ dest.f[<<n>>] = tmp.f[<<n>>]
  /\ \E n \in Names : ~Exists(dest0, <<n>>) /\ Exists(dest, <<n>>)

\* the top-level names of tmpDir that the destination did not have when the
\* merge was called
NewNames == {n \in Names : Exists(tmp, <<n>>) /\ ~Exists(dest0, <<n>>)}
AskedFiles == {asked[i].file : i \in DOMAIN asked}

\* C14: whatever force is and whatever the confirms were answered, no
\* confirm prompt is shown for an entry of tmpDir that the destination did
\* not have, and when the merge has completed every such entry is in the
\* destination as it is in tmpDir.
C14_NewEntriesCopied ==
  /\ AskedFiles \cap NewNames = {}
  /\ pc = "done" => \A n \in NewNames : Entry(dest, n) = Entry(tmp, n)

\* a completed merge without force that copied a new entry while a
\* colliding one was declined
C14_Witness ==
  /\ pc = "done" /\ ~force
  /\ NewNames # {} /\ Declined # {}

\* the names both tmpDir and the destination had when the merge was called,
\* in listing order
CollisionSeq ==
  LET both(n) == Exists(tmp, <<n>>) /\ Exists(dest0, <<n>>)
  IN SelectSeq(lsOrder, both)

\* C16: without force, the confirm prompts shown so far are those for the
\* first colliding names, one each, in the listing order of tmpDir; the
\* colliding names are those of the start of the merge, whatever was
\* deleted since; and an entry is only copied once a prompt was shown for
\* every colliding name.
C16_PromptSequence ==
  ~force =>
    /\ Len(asked) <= Len(CollisionSeq)
    /\ \A i \in DOMAIN asked :
         asked[i].type = "confirm" /\ asked[i].file = CollisionSeq[i]
    /\ pc \in {"copy", "done", "error"} => Len(asked) = Len(CollisionSeq)
    /\ OpsOf(oplog, "copy") # <<>> => pc \in {"done", "error"}

\* a completed merge with two prompts, shown in a listing order that is not
\* the alphabetical one, the first answered yes, and an entry copied
C16_Witness ==
  /\ pc = "done" /\ ~force /\ Len(asked) = 2
  /\ asked[1].file = "s" /\ asked[2].file = "a"
  /\ answers[1].overwrite /\ OpsOf(oplog, "copy") # <<>>

\* C19: at every point of the merge and after it, whatever force is and
\* whatever the confirms were answered, every top-level entry of the
\* destination whose name is not the name of an entry of tmpDir is as it
\* was when the merge was called, with everything below it.
C19_MergeFrame ==
  \A n \in Names : ~Exists(tmp, <<n>>) => Entry(dest, n) = Entry(dest0, n)

\* C13: when a confirm prompt of the merge is rejected, the merge is aborted
\* and the destination is as it was when the merge was called, whatever the
\* earlier confirms were answered (stated where process.cwd() is the
\* destination, so that removeSync(file) names the destination's entry).
C13_AbortLeavesDestination ==
  (pc = "aborted" /\ cwd = CwdInDest(Root)) =>
    (error = "PromptRejected" /\ dest = dest0)

(***************************************************************************)
(* verifySourcePath(sourcePath), with verifyLocalPath and verifyVCSURL.    *)
(*   pc: "verify" (called) -> "head" (axios.head is awaited) ->            *)
(*   "returned" (the returned promise is settled); "exited" when the       *)
(*   runtime ends the process for an unhandled rejection.                  *)
(*   A promise is "none", "pending", "resolved"/"fulfilled" or "rejected"; *)
(*   accessPromise is "reported" once the runtime saw it rejected with no  *)
(*   handler.                                                              *)
(***************************************************************************)
\* longest sourcePath
MaxPathLen == 3
PathChars == {"/", "b", "."}
SourcePaths == SeqsUpTo(PathChars, MaxPathLen)
HeadResults == {"ok", "404", "failed"}
\* the runtime warns about an unhandled rejection and goes on, or throws it
\* as an uncaught exception
UnhandledModes == {"warn", "throw"}

\* lines 46, 66: sourcePath.startsWith("/")
startsWith(str, ch) == Len(str) >= 1 /\ str[1] = ch

\* lines 13-18: the function has no return statement; the promise that
\* fse.access(...).catch(...) makes is dropped
verifyLocalPath(localPath) == [returns |-> "undefined", access |-> "pending"]

\* lines 30-42: what awaiting axios.head leads to
verifyVCSURL(result) ==
  IF result = "ok" THEN [promise |-> "resolved", error |-> ""]
  ELSE IF result = "404" THEN [promise |-> "rejected", error |-> "BoxAtURLDoesNotExist"]
  ELSE [promise |-> "rejected", error |-> "ErrorConnecting"]

InitVerify ==
  /\ pc = "verify" /\ error = ""
  /\ sourcePath \in SourcePaths
  /\ boxExists \in BOOLEAN
  /\ headResult \in HeadResults
  /\ unhandledMode \in UnhandledModes
  /\ verifyPromise = "pending" /\ accessPromise = "none"
  /\ dest = EmptyFs /\ dest0 = EmptyFs /\ lsOrder = <<"a", "b", "s">>
  /\ asked = <<>> /\ oplog = <<>> /\ dir = Root
  /\ MergeIdle /\ RecipeIdle /\ UnpackIdle /\ notDirMode = "throw"

\* lines 45-50: a local path goes to verifyLocalPath, whose return value
\* (undefined) settles the returned promise at once; anything else goes to
\* verifyVCSURL, which awaits axios.head
VerifySourcePath ==
  /\ pc = "verify"
  /\ IF startsWith(sourcePath, "/")
     THEN LET r == verifyLocalPath(sourcePath)
          IN /\ accessPromise' = r.access
             /\ verifyPromise' = IF r.returns = "undefined" THEN "resolved" ELSE "pending"
             /\ pc' = "returned"
     ELSE /\ pc' = "head"
          /\ UNCHANGED <<accessPromise, verifyPromise>>
  /\ UNCHANGED <<error, fsVars, mergeVars, asked, oplog, recipeVars, dir,
                 unpackVars, notDirMode, sourcePath, boxExists, headResult,
                 unhandledMode>>

\* lines 30-42: axios.head settles
AxiosHead ==
  /\ pc = "head"
  /\ verifyPromise' = verifyVCSURL(headResult).promise
  /\ error' = verifyVCSURL(headResult).error
  /\ pc' = "returned"
  /\ UNCHANGED <<fsVars, mergeVars, asked, oplog, recipeVars, dir,
                 unpackVars, notDirMode, sourcePath, boxExists, headResult,
                 unhandledMode, accessPromise>>

\* lines 15-17: fse.access settles, after the synchronous return; the catch
\* callback throws, so the promise catch made is rejected
AccessSettles ==
  /\ pc = "returned" /\ accessPromise = "pending"
  /\ accessPromise' = IF boxExists THEN "fulfilled" ELSE "rejected"
  /\ UNCHANGED <<pc, error, fsVars, mergeVars, asked, oplog, recipeVars, dir,
                 unpackVars, notDirMode, sourcePath, boxExists, headResult,
                 unhandledMode, verifyPromise>>

\* nothing handles the rejected promise of lines 15-17
UnhandledRejection ==
  /\ pc = "returned" /\ accessPromise = "rejected"
  /\ accessPromise' = "reported"
  /\ pc' = IF unhandledMode = "throw" THEN "exited" ELSE pc
  /\ UNCHANGED <<error, fsVars, mergeVars, asked, oplog, recipeVars, dir,
                 unpackVars, notDirMode, sourcePath, boxExists, headResult,
                 unhandledMode, verifyPromise>>

NextVerify == VerifySourcePath \/ AxiosHead \/ AccessSettles \/ UnhandledRejection
SpecVerify == InitVerify /\ [][NextVerify]_vars

\* C12: for a local path whose truffle-box.json does not exist, the promise
\* verifySourcePath returned is never resolved: once settled it is rejected.
C12_MissingLocalBoxRejects ==
  (startsWith(sourcePath, "/") /\ ~boxExists /\ pc # "verify") =>
    verifyPromise # "resolved"

(***************************************************************************)
(* fetchRepository(sourcePath, dir) with gitIgnoreFilter,                  *)
(* prepareToCopyFiles(tempDir, {ignore}) and                               *)
(* installBoxDependencies({hooks}, destination), each called at most once, *)
(* in any order, one after the other.                                      *)
(*   pc: "unpack" (no call is running) -> "gitignore" (readFile of         *)
(*   .gitignore is awaited) -> "filtered" (gitIgnoreFilter returned, line  *)
(*   67 is awaited) -> "copying" (fse.copy is pending and fills dir) ->    *)
(*   "unpack";                                                             *)
(*   "download" (the download is pending); "failed" when a call threw or   *)
(*   its promise was rejected.                                             *)
(*   tmp is dir/tempDir, dest is destination.  A text is the sequence of   *)
(*   its characters; a file name of boxConfig.ignore is the sequence of    *)
(*   its segments.                                                         *)
(***************************************************************************)
\* most entries of a generated box, its configuration files and .gitignore
\* apart
MaxBoxNodes == 2
GitIgnore == <<".gitignore">>
BoxJson == <<"truffle-box.json">>
InitJson == <<"truffle-init.json">>

\* line 59: p.replace(/\/$/, "")
stripSlash(p) == IF Len(p) >= 1 /\ p[Len(p)] = "/" THEN SubSeq(p, 1, Len(p) - 1) ELSE p

\* line 59: split(/\r?\n/), a carriage return before a line feed going with it
RECURSIVE dropCR(_)
dropCR(text) ==
  IF Len(text) < 2 THEN text
  ELSE IF text[1] = "\r" /\ text[2] = "\n" THEN dropCR(Tail(text))
  ELSE <<Head(text)>> \o dropCR(Tail(text))
splitLines(text) == split(dropCR(text), "\n")

\* lines 53-62: the patterns of sourcePath/.gitignore, none when it cannot
\* be read
gitIgnoreFilter(fs, exists) ==
  IF exists /\ IsFile(fs, GitIgnore)
  THEN LET lines == splitLines(fs.f[GitIgnore][2])
       IN [i \in DOMAIN lines |-> stripSlash(lines[i])]
  ELSE <<>>

\* filter.ignores(relative), for the patterns "name" (an entry of that name
\* at any depth) and "/name" (an entry of that name at the top); an empty
\* line is no pattern
Ignores(patterns, rel) ==
  \E i \in DOMAIN patterns :
    LET pat == patterns[i]
    IN /\ pat # <<>>
       /\ IF pat[1] = "/"
          THEN Len(pat) = 2 /\ rel[1] = pat[2]
          ELSE Len(pat) = 1 /\ \E k \in DOMAIN rel : rel[k] = pat[1]

\* lines 68-71: fse.copy into an empty dir; an entry the filter refuses is
\* skipped with all that is below it
FilteredCopy(fs, patterns) ==
  Restrict(fs, {q \in AllPaths(fs) : \A pre \in Prefixes(q) : ~Ignores(patterns, pre)})

\* lines 77-81: needingRemoval is boxConfig.ignore itself, so the two pushes
\* lengthen the configuration's list
NeedingRemoval(ign) == ign \o <<BoxJson, InitJson>>

\* texts of a .gitignore
GitIgnoreTexts ==
  {<<>>, <<"a">>, <<"a", "/">>, <<"/", "b">>, <<"s", "\n", "/", "a">>,
   <<"b", "\r", "\n", "s", "/", "\n">>}

\* boxes: a tree, with or without the configuration files and a .gitignore
BoxTrees ==
  LET withFiles(fs, ps) ==
        [d |-> fs.d,
         f |-> [p \in DOMAIN fs.f \cup ps |->
                  IF p \in DOMAIN fs.f THEN fs.f[p] ELSE <<"box", p>>]]
      withGitIgnore(fs, text) == WriteFile(fs, GitIgnore, <<"box", text>>)
      plain == UNION {{withFiles(fs, ps) : ps \in SUBSET {BoxJson, InitJson}}
                        : fs \in TreesUpTo(MaxBoxNodes, "box")}
  IN plain \cup UNION {{withGitIgnore(fs, text) : text \in GitIgnoreTexts} : fs \in plain}

IgnoreLists == {<<>>, <<<<"a">>>>, <<<<"a", "b">>, <<"s">>>>, <<BoxJson>>}
PostUnpacks == {<<>>, <<"n", "p", "m">>}

InitUnpack ==
  /\ pc = "unpack" /\ error = ""
  /\ sourcePath \in {<<"/", "b">>, <<"b">>}
  /\ sourceExists \in BOOLEAN
  /\ source \in IF sourceExists THEN BoxTrees ELSE {EmptyFs}
  /\ ~startsWith(sourcePath, "/") => sourceExists
  /\ ignore \in IgnoreLists
  /\ postUnpack \in PostUnpacks
  /\ filter = <<>> /\ called = {}
  /\ notDirMode \in NotDirModes
  /\ tmp = EmptyFs
  /\ dest = EmptyFs /\ dest0 = dest /\ destExists = TRUE
  /\ cwd = CwdInDest(Root) /\ cwdFs = EmptyFs /\ lsOrder = <<"a", "b", "s">>
  /\ force = FALSE /\ boxContents = <<>> /\ newContents = <<>>
  /\ contentCollisions = <<>> /\ overwriteContents = <<>> /\ shouldCopy = <<>>
  /\ idx = 0 /\ answers = <<>>
  /\ asked = <<>> /\ oplog = <<>> /\ dir = Root
  /\ boxExists = FALSE /\ headResult = "none" /\ unhandledMode = "warn"
  /\ verifyPromise = "none" /\ accessPromise = "none"
  /\ RecipeIdle

\* lines 65-67, 73: the call; a local path goes to gitIgnoreFilter, which
\* awaits readFile, anything else to the download
FetchRepository ==
  /\ pc = "unpack" /\ "fetchRepository" \notin called
  /\ called' = called \cup {"fetchRepository"}
  /\ pc' = IF startsWith(sourcePath, "/") THEN "gitignore" ELSE "download"
  /\ UNCHANGED <<error, fsVars, mergeVars, asked, oplog, recipeVars, dir, verifyVars,
                 source, sourceExists, ignore, postUnpack, filter, notDirMode>>

\* lines 55-62: readFile settles and gitIgnoreFilter returns
GitIgnoreFilter ==
  /\ pc = "gitignore"
  /\ filter' = gitIgnoreFilter(source, sourceExists)
  /\ pc' = "filtered"
  /\ UNCHANGED <<error, fsVars, mergeVars, asked, oplog, recipeVars, dir, verifyVars,
                 source, sourceExists, ignore, postUnpack, called, notDirMode>>

\* lines 67-71: the await of line 67 resumes and fse.copy is called
FetchCopy ==
  /\ pc = "filtered"
  /\ pc' = "copying"
  /\ UNCHANGED <<error, fsVars, mergeVars, asked, oplog, recipeVars, dir, verifyVars,
                 unpackVars, notDirMode>>

\* what a file holds between its creation and the writing of its content
NoContent == <<"empty", <<>>>>

\* lines 68-71: while fse.copy is pending dir is filled entry by entry, over
\* several turns of the event loop: a directory is made, or a file is
\* created, below an entry that is there already
CopyEntry ==
  /\ pc = "copying" /\ sourceExists
  /\ \E p \in AllPaths(FilteredCopy(source, filter)) \ AllPaths(tmp) :
       /\ IsDir(tmp, Dirname(p))
       /\ tmp' = IF IsDir(source, p) THEN MkDir(tmp, p) ELSE WriteFile(tmp, p, NoContent)
  /\ UNCHANGED <<pc, error, dest, dest0, destExists, cwd, cwdFs, lsOrder, mergeVars,
                 asked, oplog, recipeVars, dir, verifyVars, unpackVars, notDirMode>>

\* lines 68-71: the content of a created file is written
CopyContent ==
  /\ pc = "copying" /\ sourceExists
  /\ \E p \in DOMAIN tmp.f :
       /\ tmp.f[p] = NoContent
       /\ tmp' = WriteFile(tmp, p, source.f[p])
  /\ UNCHANGED <<pc, error, dest, dest0, destExists, cwd, cwdFs, lsOrder, mergeVars,
                 asked, oplog, recipeVars, dir, verifyVars, unpackVars, notDirMode>>

\* lines 68-71: fse.copy settles, when all that the filter lets through is
\* in dir; it is rejected when sourcePath is not there
CopySettles ==
  /\ pc = "copying"
  /\ IF sourceExists
     THEN /\ tmp = FilteredCopy(source, filter)
          /\ pc' = "unpack"
          /\ UNCHANGED error
     ELSE /\ error' = "CopyFailed"
          /\ pc' = "failed"
  /\ UNCHANGED <<fsVars, mergeVars, asked, oplog, recipeVars, dir, verifyVars,
                 unpackVars, notDirMode>>

\* line 73: the download settles, with the repository in dir or with an error
Download ==
  /\ pc = "download"
  /\ \E ok \in BOOLEAN :
       IF ok
       THEN /\ tmp' = source
            /\ pc' = "unpack"
            /\ UNCHANGED error
       ELSE /\ error' = "DownloadFailed"
            /\ pc' = "failed"
            /\ UNCHANGED tmp
  /\ UNCHANGED <<dest, dest0, destExists, cwd, cwdFs, lsOrder, mergeVars, asked, oplog,
                 recipeVars, dir, verifyVars, unpackVars, notDirMode>>

\* lines 76-86: the function throws when a removeSync does, with what was
\* removed before gone
PrepareToCopyFiles ==
  /\ pc = "unpack" /\ "prepareToCopyFiles" \notin called
  /\ called' = called \cup {"prepareToCopyFiles"}
  /\ ignore' = NeedingRemoval(ignore)
  /\ LET st == removeAll([ok |-> TRUE, fs |-> tmp, log |-> oplog], ignore')
     IN /\ tmp' = st.fs /\ oplog' = st.log
        /\ IF st.ok THEN UNCHANGED <<pc, error>>
           ELSE pc' = "failed" /\ error' = "ENOTDIR"
  /\ UNCHANGED <<dest, dest0, destExists, cwd, cwdFs, lsOrder, mergeVars,
                 asked, recipeVars, dir, verifyVars, source, sourceExists, postUnpack,
                 filter, notDirMode>>

\* what a command may leave in destination
Installed == <<"node_modules">>

\* lines 146-151: nothing is run for an empty command; a command runs in
\* destination, where it may leave a new entry, and execSync throws when
\* it fails
InstallBoxDependencies ==
  /\ pc = "unpack" /\ "installBoxDependencies" \notin called
  /\ called' = called \cup {"installBoxDependencies"}
  /\ IF Len(postUnpack) = 0
     THEN UNCHANGED <<pc, error, dest, oplog>>
     ELSE /\ oplog' = Append(oplog, [op |-> "exec", path |-> Root, cmd |-> postUnpack])
          /\ dest' \in {dest, MkDir(dest, Installed)}
          /\ \E ok \in BOOLEAN :
               IF ok THEN UNCHANGED <<pc, error>>
               ELSE pc' = "failed" /\ error' = "CommandFailed"
  /\ UNCHANGED <<dest0, destExists, tmp, cwd, cwdFs, lsOrder, mergeVars, asked,
                 recipeVars, dir, verifyVars, source, sourceExists, ignore, postUnpack,
                 filter, notDirMode>>

NextUnpack ==
  \/ FetchRepository \/ GitIgnoreFilter \/ FetchCopy \/ CopyEntry \/ CopyContent
  \/ CopySettles \/ Download
  \/ PrepareToCopyFiles \/ InstallBoxDependencies
SpecUnpack == InitUnpack /\ [][NextUnpack]_vars
====
